---------------------------- MODULE Spec2Model ----------------------------
(***************************************************************************)
(* A model of dwmc.py (Dungeon World monster cards): the ingestion of      *)
(* InDesign XML documents (parse_xml) and of YAML documents (parse_yaml)   *)
(* into the module-level dictionary `monsters`, and the module's main      *)
(* loop that ingests every source file and then renders every record.      *)
(*                                                                         *)
(* Representation of Python values:                                        *)
(*   str            a sequence of one-character strings                    *)
(*   None           the sequence <<"<None>">> (no str has such an element) *)
(*   int or None    <<n>> or <<>>                                          *)
(*   list of str    a sequence of str                                      *)
(*   a local that may be unbound (m, e)   <<>> or <<value>>                *)
(*   a tag field the code rebinds from list to str (tags_org, tags_size,   *)
(*   weapon tags_range)   a record [kind, items, text]                     *)
(* An uncaught exception ends the interpreter: pc = "crashed".  The        *)
(* handler that raised leaves the state as it was before the handler: the  *)
(* part of its work done before the raise is never observed by anyone.     *)
(***************************************************************************)
EXTENDS Integers, Sequences, FiniteSets, TLC

VARIABLES
    pc,         \* position of the main program
    monsters,   \* the dict `monsters` (line 42): name -> record
    m,          \* parse_xml's local m: <<>> (unbound) or <<record>>
    linked,     \* TRUE when m is the very object stored at monsters[m.name]
    second,     \* parse_xml's local flag `second`
    e,          \* parse_xml's local e (loop variable of line 242)
    setting,    \* parse_xml's locals setting and setting_reference
    xmlLeft,    \* number of files of xml_files not yet parsed
    yamlLeft,   \* number of files of yaml_files not yet parsed
    elemsLeft,  \* number of body elements the run may still process
    mode,       \* the output argument, "" until the render loop reads it
    todo,       \* render loop: names of monsters_sorted not yet rendered
    rendered,   \* names whose record a writer has finished, in order
    script,     \* the elements still to come of a document given as a whole
    docs,       \* the documents given as a whole so far (history)
    last,       \* what the last step did (history, read by no action)
    ret,        \* the value the last call of a field combiner returned
    calls       \* number of calls of the field combiners so far

vars == <<pc, monsters, m, linked, second, e, setting, xmlLeft, yamlLeft,
          elemsLeft, mode, todo, rendered, script, docs, last, ret, calls>>

-----------------------------------------------------------------------------
(* Bounds of the model *)

MaxXmlDocs == 2
MaxYamlDocs == 1
MaxElems == 4
MaxMoves == 2

-----------------------------------------------------------------------------
(* Python str operations *)

None == <<"<None>">>

Whitespace == {" ", "\t", "\n"}

Truthy(s) == s # None /\ s # <<>>

RECURSIVE LStripChars(_, _)
LStripChars(s, cs) ==
    IF s # <<>> /\ Head(s) \in cs THEN LStripChars(Tail(s), cs) ELSE s

RECURSIVE RStripChars(_, _)
RStripChars(s, cs) ==
    IF s # <<>> /\ s[Len(s)] \in cs
    THEN RStripChars(SubSeq(s, 1, Len(s) - 1), cs)
    ELSE s

StripChars(s, cs) == RStripChars(LStripChars(s, cs), cs)

Strip(s) == StripChars(s, Whitespace)

RECURSIVE Split(_, _)
Split(s, c) ==
    IF \E i \in 1..Len(s) : s[i] = c
    THEN LET i == CHOOSE k \in 1..Len(s) :
                      s[k] = c /\ \A j \in 1..(k - 1) : s[j] # c
         IN  <<SubSeq(s, 1, i - 1)>> \o Split(SubSeq(s, i + 1, Len(s)), c)
    ELSE <<s>>

EndsWith(s, suffix) ==
    /\ Len(s) >= Len(suffix)
    /\ SubSeq(s, Len(s) - Len(suffix) + 1, Len(s)) = suffix

RECURSIVE Join(_, _)
Join(sep, list) ==
    IF list = <<>> THEN <<>>
    ELSE IF Len(list) = 1 THEN list[1]
    ELSE list[1] \o sep \o Join(sep, Tail(list))

Upper == <<"A", "B", "C", "D", "E", "F", "G", "H", "I", "J", "K", "L", "M",
           "N", "O", "P", "Q", "R", "S", "T", "U", "V", "W", "X", "Y", "Z">>
Lower == <<"a", "b", "c", "d", "e", "f", "g", "h", "i", "j", "k", "l", "m",
           "n", "o", "p", "q", "r", "s", "t", "u", "v", "w", "x", "y", "z">>

LowerChar(c) ==
    IF \E i \in 1..Len(Upper) : Upper[i] = c
    THEN Lower[CHOOSE i \in 1..Len(Upper) : Upper[i] = c]
    ELSE c

ToLower(s) == [i \in 1..Len(s) |-> LowerChar(s[i])]

Digits == <<"0", "1", "2", "3", "4", "5", "6", "7", "8", "9">>

IsDigit(c) == \E i \in 1..Len(Digits) : Digits[i] = c

DigitVal(c) == (CHOOSE i \in 1..Len(Digits) : Digits[i] = c) - 1

RECURSIVE DigitsVal(_)
DigitsVal(s) ==
    IF s = <<>> THEN 0
    ELSE DigitsVal(SubSeq(s, 1, Len(s) - 1)) * Len(Digits) + DigitVal(s[Len(s)])

(* int(s): [ok |-> FALSE] stands for ValueError *)
ParseInt(s) ==
    LET t    == Strip(s)
        neg  == t # <<>> /\ Head(t) = "-"
        body == IF t # <<>> /\ Head(t) \in {"-", "+"} THEN Tail(t) ELSE t
    IN  IF body # <<>> /\ \A i \in 1..Len(body) : IsDigit(body[i])
        THEN [ok |-> TRUE,
              val |-> IF neg THEN 0 - DigitsVal(body) ELSE DigitsVal(body)]
        ELSE [ok |-> FALSE, val |-> 0]

(* list.index and list.insert *)
InList(x, list) == \E i \in 1..Len(list) : list[i] = x

IndexOf(x, list) == (CHOOSE i \in 1..Len(list) : list[i] = x) - 1

Insert(list, i, x) ==
    IF i >= Len(list) THEN Append(list, x)
    ELSE SubSeq(list, 1, i) \o <<x>> \o SubSeq(list, i + 1, Len(list))

-----------------------------------------------------------------------------
(* Tag order lists (lines 37-39) *)

Solitary == <<"S", "o", "l", "i", "t", "a", "r", "y">>
Group == <<"G", "r", "o", "u", "p">>
Horde == <<"H", "o", "r", "d", "e">>
Tiny == <<"T", "i", "n", "y">>
Small == <<"S", "m", "a", "l", "l">>
Large == <<"L", "a", "r", "g", "e">>
Huge == <<"H", "u", "g", "e">>
Hand == <<"H", "a", "n", "d">>
Close == <<"C", "l", "o", "s", "e">>
Reach == <<"R", "e", "a", "c", "h">>
Near == <<"N", "e", "a", "r">>
Far == <<"F", "a", "r">>

monster_tags_org == <<Solitary, Group, Horde>>
monster_tags_size == <<Tiny, Small, Large, Huge>>
weapon_tags_range == <<Hand, Close, Reach, Near, Far>>


-----------------------------------------------------------------------------
(* Records *)

(* a list value and a str value of a field the code rebinds between the two *)
ListVal(items) == [kind |-> "list", items |-> items, text |-> <<>>]
StrVal(text) == [kind |-> "str", items |-> <<>>, text |-> text]

NoInt == <<>>

(* the OrderedDict built at lines 169-187 and 279-297 *)
NewMonster(set, set_ref) ==
    [name |-> None,
     tags_desc |-> <<>>,
     tags_org |-> ListVal(<<>>),
     tags_size |-> ListVal(<<>>),
     hp |-> NoInt,
     armor |-> NoInt,
     weapon |-> [name |-> None,
                 damage |-> None,
                 tags_desc |-> <<>>,
                 tags_range |-> ListVal(<<>>)],
     instinct |-> None,
     moves |-> <<>>,
     qualities |-> <<>>,
     description |-> <<>>,
     reference |-> NoInt,
     setting |-> set,
     setting_reference |-> set_ref]

(* dict assignment d[k] = v *)
Put(d, k, v) == [x \in DOMAIN d \cup {k} |-> IF x = k THEN v ELSE d[x]]

EmptyDict == <<>>

-----------------------------------------------------------------------------
(* ElementTree elements: tag, pstyle attribute ("" when the attribute is   *)
(* missing), text, and the children; a child has tag, text and tail.       *)

Child(tag, text, tail) == [tag |-> tag, text |-> text, tail |-> tail]

Elem(tag, style, text, children) ==
    [tag |-> tag, style |-> style, text |-> text, children |-> children]

-----------------------------------------------------------------------------
(* parse_xml, one body element at a time.  The locals the loop carries     *)
(* from one element to the next are st = [m, second, e]; a handler yields  *)
(* [ok, m, second, e, commit]: ok = FALSE is an uncaught exception and     *)
(* commit = TRUE is the assignment monsters[m["name"]] = m of line 273.    *)

Raise(st) ==
    [ok |-> FALSE, m |-> st.m, second |-> st.second, e |-> st.e,
     commit |-> FALSE]

Proceed(st, newM, newSecond, newE) ==
    [ok |-> TRUE, m |-> newM, second |-> newSecond, e |-> newE,
     commit |-> FALSE]

(* the loop body of lines 193-202 without the else branch of line 201 *)
ClassifyMonsterTag_DropsUnknown(mon, rawTag) ==
    LET tag == Strip(rawTag)
    IN  IF InList(tag, monster_tags_org)
        THEN [mon EXCEPT !.tags_org = ListVal(
                 Insert(@.items, IndexOf(tag, monster_tags_org), tag))]
        ELSE IF InList(tag, monster_tags_size)
        THEN [mon EXCEPT !.tags_size = ListVal(
                 Insert(@.items, IndexOf(tag, monster_tags_size), tag))]
        ELSE mon

(* lines 193-202: the loop body for one tag of a MonsterName element *)
ClassifyMonsterTag(mon, rawTag) ==
    LET tag == Strip(rawTag)
    IN  IF InList(tag, monster_tags_org)
        THEN [mon EXCEPT !.tags_org = ListVal(
                 Insert(@.items, IndexOf(tag, monster_tags_org), tag))]
        ELSE IF InList(tag, monster_tags_size)
        THEN [mon EXCEPT !.tags_size = ListVal(
                 Insert(@.items, IndexOf(tag, monster_tags_size), tag))]
        ELSE [mon EXCEPT !.tags_desc = Append(@, tag)]

RECURSIVE ClassifyMonsterTags(_, _)
ClassifyMonsterTags(mon, tags) ==
    IF tags = <<>> THEN mon
    ELSE ClassifyMonsterTags(ClassifyMonsterTag(mon, Head(tags)), Tail(tags))

(* lines 208-214: the loop body for one tag of a weapon-tags element *)
ClassifyWeaponTag(mon, rawTag) ==
    LET tag == Strip(rawTag)
    IN  IF InList(tag, weapon_tags_range)
        THEN [mon EXCEPT !.weapon.tags_range = ListVal(
                 Insert(@.items, IndexOf(tag, weapon_tags_range), tag))]
        ELSE [mon EXCEPT !.weapon.tags_desc = Append(@, tag)]

RECURSIVE ClassifyWeaponTags(_, _)
ClassifyWeaponTags(mon, tags) ==
    IF tags = <<>> THEN mon
    ELSE ClassifyWeaponTags(ClassifyWeaponTag(mon, Head(tags)), Tail(tags))

(* index.yaml as loaded at lines 745-746: index["monsters"] is keyed by    *)
(* lowercase name, index["settings"] by setting name                       *)
Goblin == <<"G", "o", "b", "l", "i", "n">>
Orc == <<"O", "r", "c">>
Elf == <<"E", "l", "f">>
Cave == <<"C", "a", "v", "e">>
Hill == <<"H", "i", "l", "l">>

IndexMonsters == Put(Put(EmptyDict, ToLower(Goblin), <<224>>), ToLower(Orc), <<283>>)
IndexSettings == Put(Put(EmptyDict, Cave, <<221>>), Hill, <<301>>)

(* a MonsterName paragraph that goes on with the record of the monster      *)
(* before it                                                               *)
MonsterName_KeepsRecord(el, st) ==
    IF el.text = None THEN Raise(st)
    ELSE
    LET name  == Strip(el.text)
        base  == IF st.m = <<>>
                 THEN NewMonster(st.setting[1], st.setting[2])
                 ELSE st.m[1]
        fresh == [base EXCEPT !.name = name]
    IN  IF ToLower(name) \notin DOMAIN IndexMonsters THEN Raise(st)
        ELSE
        LET named == [fresh EXCEPT !.reference = IndexMonsters[ToLower(name)]]
        IN  IF Len(el.children) > 0
            THEN IF el.children[1].text = None THEN Raise(st)
                 ELSE Proceed(st,
                          <<ClassifyMonsterTags(named,
                                Split(el.children[1].text, ","))>>,
                          st.second, st.e)
            ELSE Proceed(st, <<named>>, st.second, st.e)

(* lines 165-202: a MonsterName paragraph *)
MonsterName(el, st) ==
    IF el.text = None THEN Raise(st)               \* None.strip()
    ELSE
    LET name  == Strip(el.text)
        fresh == [NewMonster(st.setting[1], st.setting[2])
                     EXCEPT !.name = name]
    IN  IF ToLower(name) \notin DOMAIN IndexMonsters THEN Raise(st) \* KeyError
        ELSE
        LET named == [fresh EXCEPT !.reference = IndexMonsters[ToLower(name)]]
        IN  IF Len(el.children) > 0
            THEN IF el.children[1].text = None THEN Raise(st) \* None.split()
                 ELSE Proceed(st,
                          <<ClassifyMonsterTags(named,
                                Split(el.children[1].text, ","))>>,
                          st.second, st.e)
            ELSE Proceed(st, <<named>>, st.second, st.e)

(* lines 218-231: the loop body for one tab-separated token of the primary *)
(* stat line; yields [ok, mon]                                              *)
PrimaryStat(mon, stat) ==
    IF EndsWith(stat, <<")">>)
    THEN LET parts == Split(stat, "(")
         IN  IF Len(parts) # 2 THEN [ok |-> FALSE, mon |-> mon] \* unpacking
             ELSE [ok |-> TRUE,
                   mon |-> [mon EXCEPT
                       !.weapon.name = Strip(parts[1]),
                       !.weapon.damage = Strip(StripChars(parts[2], {")"}))]]
    ELSE IF EndsWith(stat, <<"H", "P">>)
    THEN LET n == ParseInt(Split(stat, " ")[1])
         IN  IF n.ok THEN [ok |-> TRUE, mon |-> [mon EXCEPT !.hp = <<n.val>>]]
             ELSE [ok |-> FALSE, mon |-> mon]                   \* ValueError
    ELSE IF EndsWith(stat, <<"A", "r", "m", "o", "r">>)
    THEN LET n == ParseInt(Split(stat, " ")[1])
         IN  IF n.ok
             THEN [ok |-> TRUE, mon |-> [mon EXCEPT !.armor = <<n.val>>]]
             ELSE [ok |-> FALSE, mon |-> mon]                   \* ValueError
    ELSE [ok |-> TRUE, mon |-> mon]

(* whether a token of the primary stat line reads or writes m *)
StatUsesMonster(stat) ==
    \/ EndsWith(stat, <<")">>)
    \/ EndsWith(stat, <<"H", "P">>)
    \/ EndsWith(stat, <<"A", "r", "m", "o", "r">>)

RECURSIVE PrimaryStats(_, _)
PrimaryStats(mon, stats) ==
    IF stats = <<>> THEN [ok |-> TRUE, mon |-> mon]
    ELSE LET r == PrimaryStat(mon, Head(stats))
         IN  IF r.ok THEN PrimaryStats(r.mon, Tail(stats)) ELSE r

(* MonsterStats without the assignment second = True of line 232: every   *)
(* MonsterStats paragraph is read as a primary stat line                   *)
MonsterStats_FlagNeverSet(el, st) ==
    IF el.text = None THEN Raise(st)
    ELSE IF st.m = <<>> THEN Raise(st)
    ELSE LET r == PrimaryStats(st.m[1], Split(el.text, "\t"))
         IN  IF r.ok THEN Proceed(st, <<r.mon>>, FALSE, st.e) ELSE Raise(st)

(* lines 204-232: a MonsterStats paragraph *)
MonsterStats(el, st) ==
    IF st.second
    THEN \* weapon tags
         IF Len(el.children) = 0 THEN Raise(st)          \* IndexError
         ELSE IF el.children[1].text = None THEN Raise(st)
         ELSE IF st.m = <<>> THEN Raise(st)              \* m is unbound
         ELSE Proceed(st,
                  <<ClassifyWeaponTags(st.m[1],
                        Split(el.children[1].text, ","))>>,
                  FALSE, st.e)
    ELSE \* armor, hp, weapon name and damage
         IF el.text = None THEN Raise(st)
         ELSE
         LET stats == Split(el.text, "\t")
         IN  IF st.m = <<>>
             THEN IF \E i \in 1..Len(stats) : StatUsesMonster(stats[i])
                  THEN Raise(st)                         \* m is unbound
                  ELSE Proceed(st, st.m, TRUE, st.e)
             ELSE LET r == PrimaryStats(st.m[1], stats)
                  IN  IF r.ok THEN Proceed(st, <<r.mon>>, TRUE, st.e)
                      ELSE Raise(st)

RECURSIVE StripAll(_)
StripAll(list) ==
    IF list = <<>> THEN <<>>
    ELSE <<Strip(Head(list))>> \o StripAll(Tail(list))

(* lines 233-235: a MonsterQualities paragraph *)
MonsterQualities(el, st) ==
    IF Len(el.children) = 0 THEN Raise(st)               \* IndexError
    ELSE IF el.children[1].tail = None THEN Raise(st)
    ELSE IF st.m = <<>> THEN Raise(st)
    ELSE Proceed(st,
             <<[st.m[1] EXCEPT !.qualities =
                   @ \o StripAll(Split(el.children[1].tail, ","))]>>,
             st.second, st.e)

(* the loop body of lines 243-257 without the test of line 243: the tail   *)
(* of a marker child goes to the description as well                       *)
DescriptionChild_MarkerDescribed(mon, c) ==
    IF c.tail = None /\ c.text = <<"I", "n", "s", "t", "i", "n", "c", "t">>
    THEN [ok |-> FALSE, mon |-> mon]
    ELSE LET d == IF Truthy(c.tail) THEN mon.description \o c.tail
                  ELSE mon.description
         IN  [ok |-> TRUE,
              mon |-> IF c.text = <<"I", "n", "s", "t", "i", "n", "c", "t">>
                      THEN [mon EXCEPT
                               !.description = d,
                               !.instinct = Strip(LStripChars(c.tail, {":"}))]
                      ELSE [mon EXCEPT !.description = d]]

(* lines 243-257: the loop body for one child of a MonsterDescription      *)
(* paragraph; yields [ok, mon]                                              *)
DescriptionChild(mon, c) ==
    IF c.text # <<"I", "n", "s", "t", "i", "n", "c", "t">>
    THEN LET text == IF c.tag = "em"
                     THEN <<"<", "i", ">">> \o c.text \o <<"<", "/", "i", ">">>
                     ELSE c.text
             d1   == IF Truthy(c.text) THEN mon.description \o text
                     ELSE mon.description
             d2   == IF Truthy(c.tail) THEN d1 \o c.tail ELSE d1
         IN  [ok |-> TRUE, mon |-> [mon EXCEPT !.description = d2]]
    ELSE IF c.tail = None THEN [ok |-> FALSE, mon |-> mon] \* None.lstrip()
    ELSE [ok |-> TRUE,
          mon |-> [mon EXCEPT
                      !.instinct = Strip(LStripChars(c.tail, {":"}))]]

(* whether the loop body of lines 243-257 reads or writes m for a child *)
ChildUsesMonster(c) ==
    \/ c.text = <<"I", "n", "s", "t", "i", "n", "c", "t">>
    \/ Truthy(c.text)
    \/ Truthy(c.tail)

RECURSIVE DescriptionChildren(_, _)
DescriptionChildren(mon, cs) ==
    IF cs = <<>> THEN [ok |-> TRUE, mon |-> mon]
    ELSE LET r == DescriptionChild(mon, Head(cs))
         IN  IF r.ok THEN DescriptionChildren(r.mon, Tail(cs)) ELSE r

(* lines 236-257: a MonsterDescription paragraph *)
MonsterDescription(el, st) ==
    IF st.m = <<>>
    THEN IF \/ Truthy(el.text)
            \/ \E i \in 1..Len(el.children) :
                   ChildUsesMonster(el.children[i])
         THEN Raise(st)                                  \* m is unbound
         ELSE Proceed(st, st.m, st.second,
                  IF Len(el.children) > 0
                  THEN <<el.children[Len(el.children)]>>
                  ELSE st.e)
    ELSE LET m1 == IF Truthy(el.text)
                   THEN [st.m[1] EXCEPT !.description = Strip(el.text)]
                   ELSE st.m[1]
             r  == DescriptionChildren(m1, el.children)
         IN  IF ~r.ok THEN Raise(st)
             ELSE Proceed(st, <<r.mon>>, st.second,
                      IF Len(el.children) > 0
                      THEN <<el.children[Len(el.children)]>>
                      ELSE st.e)

(* lines 258-266: a NoIndent paragraph; line 264 reads e, the variable     *)
(* the loop of line 242 last bound, not a child of this element            *)
NoIndent(el, st) ==
    IF (Truthy(el.text) \/ Len(el.children) > 0) /\ st.m = <<>>
    THEN Raise(st)
    ELSE IF st.m = <<>> THEN Proceed(st, st.m, st.second, st.e)
    ELSE
    LET m1 == IF Truthy(el.text)
              THEN [st.m[1] EXCEPT !.description =
                       @ \o <<"<", "b", "r", " ", "/", ">">> \o el.text]
              ELSE st.m[1]
    IN  IF Len(el.children) > 0
        THEN IF st.e = <<>> THEN Raise(st)               \* e is unbound
             ELSE IF st.e[1].tail = None THEN Raise(st)  \* None.lstrip()
             ELSE Proceed(st,
                      <<[m1 EXCEPT !.instinct =
                            Strip(LStripChars(st.e[1].tail, {":"}))]>>,
                      st.second, st.e)
        ELSE Proceed(st, <<m1>>, st.second, st.e)

RECURSIVE Texts(_)
Texts(items) ==
    IF items = <<>> THEN <<>>
    ELSE <<Head(items).text>> \o Texts(Tail(items))

(* lines 268-273: a ul element: the moves, then the commit *)
MoveList(el, st) ==
    IF st.m = <<>> THEN Raise(st)                        \* m is unbound
    ELSE [ok |-> TRUE,
          m |-> <<[st.m[1] EXCEPT !.moves = @ \o Texts(el.children)]>>,
          second |-> st.second, e |-> st.e, commit |-> TRUE]

(* lines 160-273: the body of the loop over the elements of Body *)
Handle(el, st) ==
    IF el.tag = "p"
    THEN IF el.style = "" THEN Raise(st)                 \* KeyError: pstyle
         ELSE IF el.style = "MonsterName" THEN MonsterName(el, st)
         ELSE IF el.style = "MonsterStats" THEN MonsterStats(el, st)
         ELSE IF el.style = "MonsterQualities" THEN MonsterQualities(el, st)
         ELSE IF el.style = "MonsterDescription"
              THEN MonsterDescription(el, st)
         ELSE IF el.style = "NoIndent" THEN NoIndent(el, st)
         ELSE Proceed(st, st.m, st.second, st.e)
    ELSE IF el.tag = "ul" THEN MoveList(el, st)
    ELSE Proceed(st, st.m, st.second, st.e)

-----------------------------------------------------------------------------
(* parse_yaml.  A YAML document as yaml.safe_load returns it: kind "map"   *)
(* with its keys and values (the value of "weapon" a mapping too), or      *)
(* another top-level value: "null", "list" (a non-empty list of strings),  *)
(* "emptylist", "scalar" (a non-empty string).                             *)

YamlMap(map) == [kind |-> "map", map |-> map]
YamlOther(kind) == [kind |-> kind, map |-> EmptyDict]

(* lines 300-305 for a mapping: every key of the document overwrites the   *)
(* default, the keys of "weapon" one by one                                *)
LoadMapping(mon, map) ==
    [k \in DOMAIN mon \cup DOMAIN map |->
        IF k \notin DOMAIN map THEN mon[k]
        ELSE IF k # "weapon" THEN map[k]
        ELSE [w \in DOMAIN mon.weapon \cup DOMAIN map.weapon |->
                 IF w \in DOMAIN map.weapon THEN map.weapon[w]
                 ELSE mon.weapon[w]]]

(* lines 279-306: yields [ok, mon]; ok = FALSE is the TypeError of line    *)
(* 300 (None is not iterable) or of line 302 (temp[key] on a list or str)  *)
ParseYaml(doc) ==
    LET mon == NewMonster(None, NoInt)
    IN  IF doc.kind = "map"
        THEN [ok |-> TRUE, mon |-> LoadMapping(mon, doc.map)]
        ELSE IF doc.kind = "emptylist" THEN [ok |-> TRUE, mon |-> mon]
        ELSE [ok |-> FALSE, mon |-> mon]

-----------------------------------------------------------------------------
(* Field combiners and writers *)

(* the characters of the model in the order of their code points *)
CodePoints ==
    <<"\t", "\n", " ", "(", ")", ",", "-", "/", "0", "1", "2", "3", "4",
      "5", "6", "7", "8", "9", ":", "<", ">">> \o Upper \o Lower \o <<"~">>

Ord(c) == CHOOSE i \in 1..Len(CodePoints) : CodePoints[i] = c

RECURSIVE StrLess(_, _)
StrLess(a, b) ==
    IF b = <<>> THEN FALSE
    ELSE IF a = <<>> THEN TRUE
    ELSE IF Head(a) = Head(b) THEN StrLess(Tail(a), Tail(b))
    ELSE Ord(Head(a)) < Ord(Head(b))

(* None sorts before every str (Python 2) *)
KeyLess(a, b) ==
    IF b = None THEN FALSE
    ELSE IF a = None THEN TRUE
    ELSE StrLess(a, b)

RECURSIVE InsertSorted(_, _)
InsertSorted(list, x) ==
    IF list = <<>> THEN <<x>>
    ELSE IF KeyLess(x, Head(list)) THEN <<x>> \o list
    ELSE <<Head(list)>> \o InsertSorted(Tail(list), x)

RECURSIVE Sorted(_)
Sorted(list) ==
    IF list = <<>> THEN <<>>
    ELSE InsertSorted(Sorted(SubSeq(list, 1, Len(list) - 1)), list[Len(list)])

RECURSIVE SortedSet(_)
SortedSet(S) ==
    IF S = {} THEN <<>>
    ELSE LET x == CHOOSE y \in S : \A z \in S : z = y \/ KeyLess(y, z)
         IN  <<x>> \o SortedSet(S \ {x})

CommaSpace == <<",", " ">>
Tilde == <<" ", "~", " ">>

(* truth value and iteration of a field that is a list or a str *)
ValTruthy(v) == IF v.kind = "list" THEN v.items # <<>> ELSE v.text # <<>>
ValItems(v) ==
    IF v.kind = "list" THEN v.items
    ELSE [i \in 1..Len(v.text) |-> <<v.text[i]>>]

Italic(s) == <<"<", "i", ">">> \o s \o <<"<", "/", "i", ">">>

(* lines 309-332: yields [mon, out]: the record as the call leaves it and  *)
(* the value returned                                                      *)
combine_monster_tags(mon, formatted) ==
    LET desc == Sorted(mon.tags_desc)
        c1   == IF mon.tags_desc # <<>> THEN Join(CommaSpace, desc) ELSE None
        org  == IF ValTruthy(mon.tags_org)
                THEN StrVal(Join(CommaSpace, ValItems(mon.tags_org)))
                ELSE mon.tags_org
        c2   == IF ValTruthy(mon.tags_org)
                THEN IF Truthy(c1) THEN c1 \o Tilde \o org.text ELSE org.text
                ELSE c1
        size == IF ValTruthy(mon.tags_size)
                THEN StrVal(Join(CommaSpace, ValItems(mon.tags_size)))
                ELSE mon.tags_size
        c3   == IF ValTruthy(mon.tags_size)
                THEN IF Truthy(c2) THEN c2 \o Tilde \o size.text ELSE size.text
                ELSE c2
    IN  [mon |-> [mon EXCEPT !.tags_desc = desc, !.tags_org = org,
                             !.tags_size = size],
         out |-> IF formatted /\ Truthy(c3) THEN Italic(c3) ELSE c3]

(* combine_weapon with a test of the name alone at line 342 *)
combine_weapon_NameOnly(mon, formatted) ==
    LET w == mon.weapon
    IN  IF ~Truthy(w.name)
        THEN [mon |-> mon, out |-> None]
        ELSE [mon |-> mon,
              out |-> w.name \o <<" ", "(">>
                        \o (IF w.damage = None THEN <<>> ELSE w.damage)
                        \o <<")">>]

(* lines 335-359: yields [mon, out] *)
combine_weapon(mon, formatted) ==
    LET w == mon.weapon
    IN  IF ~(Truthy(w.name) /\ Truthy(w.damage))
        THEN [mon |-> mon, out |-> None]
        ELSE
        LET weapon == w.name \o <<" ", "(">> \o w.damage \o <<")">>
            t1     == IF w.tags_desc # <<>>
                      THEN Join(CommaSpace, w.tags_desc) ELSE None
            range  == IF ValTruthy(w.tags_range)
                      THEN StrVal(Join(CommaSpace, ValItems(w.tags_range)))
                      ELSE w.tags_range
            t2     == IF ValTruthy(w.tags_range)
                      THEN IF Truthy(t1) THEN t1 \o Tilde \o range.text
                           ELSE range.text
                      ELSE t1
        IN  [mon |-> [mon EXCEPT !.weapon.tags_range = range],
             out |-> IF Truthy(t2)
                     THEN IF formatted
                          THEN weapon \o <<"<", "b", "r", " ", "/", ">">>
                                      \o Italic(t2)
                          ELSE weapon \o <<" ">> \o t2
                     ELSE weapon]

HasNone(list) == \E i \in 1..Len(list) : list[i] = None

(* lines 362-375: yields [ok, mon]; ok = FALSE is the TypeError of         *)
(* ", ".join over a list that holds None                                   *)
csv_write_row(mon) ==
    LET r1 == combine_monster_tags(mon, FALSE)
        r2 == combine_weapon(r1.mon, FALSE)
    IN  [ok |-> ~HasNone(mon.moves) /\ ~HasNone(mon.qualities),
         mon |-> r2.mon]

(* lines 378-516: yields [ok, mon].  ok = FALSE is None.upper() at line    *)
(* 393, or reportlab's Paragraph refusing a None text (lines 443, 450,     *)
(* 474): paragraphTakesNone says whether the library accepts one.          *)
pdf_create_page(mon, paragraphTakesNone) ==
    LET r1 == combine_monster_tags(mon, TRUE)
        r2 == combine_weapon(r1.mon, TRUE)
    IN  [ok |-> /\ mon.name # None
                /\ \/ paragraphTakesNone
                   \/ /\ mon.instinct # None
                      /\ ~HasNone(mon.moves)
                      /\ ~HasNone(mon.qualities),
         mon |-> r2.mon]

(* lines 519-583: yields [ok, mon]; ok = FALSE is None.upper() at lines    *)
(* 526/528, "Instinct: " + None at line 540, or textwrap on a None move or *)
(* quality; lines 546 and 557 pop the first move and the first quality     *)
plain_write(mon) ==
    LET r1 == combine_monster_tags(mon, FALSE)
        r2 == combine_weapon(r1.mon, FALSE)
    IN  [ok |-> /\ mon.name # None
                /\ mon.instinct # None
                /\ ~HasNone(mon.moves)
                /\ ~HasNone(mon.qualities),
         mon |-> [r2.mon EXCEPT
                     !.moves = IF @ = <<>> THEN @ ELSE Tail(@),
                     !.qualities = IF @ = <<>> THEN @ ELSE Tail(@)]]

(* Python truth value of the value stored under a key of a record *)
FieldTruthy(k, v) ==
    IF k \in {"tags_org", "tags_size", "tags_range"} THEN ValTruthy(v)
    ELSE IF k = "weapon" THEN DOMAIN v # {}
    ELSE IF k \in {"tags_desc", "moves", "qualities"} THEN v # <<>>
    ELSE IF k \in {"hp", "armor", "reference", "setting_reference"}
         THEN v # NoInt /\ v # <<0>>
    ELSE Truthy(v)

DropEmpty(d) ==
    LET keep == {k \in DOMAIN d : FieldTruthy(k, d[k])}
    IN  [k \in keep |-> d[k]]

(* lines 587-614: yields [ok, mon]; the empty keys of the weapon and then  *)
(* of the record are deleted; ok = FALSE is the KeyError of line 609 when  *)
(* "name" was deleted and the output is a directory                        *)
yaml_write(mon, toStdout) ==
    LET w == DropEmpty(mon.weapon)
        d == DropEmpty([mon EXCEPT !.weapon = w])
    IN  [ok |-> toStdout \/ "name" \in DOMAIN d, mon |-> d]

Modes == {"csv", "pdf", "yaml", "yaml-", "plain"}

(* lines 755-766: the writer the output argument selects *)
Write(md, mon, paragraphTakesNone) ==
    IF md = "csv" THEN csv_write_row(mon)
    ELSE IF md = "pdf" THEN pdf_create_page(mon, paragraphTakesNone)
    ELSE IF md = "yaml" THEN yaml_write(mon, FALSE)
    ELSE IF md = "yaml-" THEN yaml_write(mon, TRUE)
    ELSE plain_write(mon)

-----------------------------------------------------------------------------
(* Inputs: the documents the run is given *)

Text(words) == Join(CommaSpace, words)
Tab == <<"\t">>

HpArmor == <<"4", " ", "H", "P">> \o Tab \o <<"2", " ", "A", "r", "m", "o", "r">>
Dagger == <<"D", "a", "g", "g", "e", "r", " ", "(", "d", "6", ")">>
Stealthy == <<"s", "t", "e", "a", "l", "t", "h", "y">>
Instinct == <<"I", "n", "s", "t", "i", "n", "c", "t">>

NameGoblin ==
    Elem("p", "MonsterName", Goblin,
         <<Child("span", Text(<<Small, Horde>>), None)>>)
NameOrc ==
    Elem("p", "MonsterName", <<" ">> \o Orc \o <<" ">>,
         <<Child("span", Text(<<Horde, Stealthy, Group>>), None)>>)
NameOrcHuge ==
    Elem("p", "MonsterName", Orc,
         <<Child("span", Text(<<Huge, Group, Tiny>>), None)>>)
NameElf == Elem("p", "MonsterName", Elf, <<>>)
StatsHpArmor == Elem("p", "MonsterStats", HpArmor, <<>>)
StatsWeapon ==
    Elem("p", "MonsterStats", Dagger, <<Child("span", Hand, None)>>)
StatsAll == Elem("p", "MonsterStats", Dagger \o Tab \o HpArmor, <<>>)
StatsTags ==
    Elem("p", "MonsterStats", None,
         <<Child("span", Text(<<Reach, Close>>), None)>>)
StatsBad == Elem("p", "MonsterStats", <<"x", " ", "H", "P">>, <<>>)
Qualities ==
    Elem("p", "MonsterQualities", None,
         <<Child("span", <<"Q">>, <<" ", "a", ",", " ", "b">>)>>)
Description == Elem("p", "MonsterDescription", <<"d", " ">>, <<>>)
DescriptionInstinct ==
    Elem("p", "MonsterDescription", None,
         <<Child("em", <<"x">>, <<"y">>),
           Child("span", Instinct, <<":", " ", "z">>)>>)
Indented ==
    Elem("p", "NoIndent", <<"n">>, <<Child("span", Instinct, <<":", "w">>)>>)
Moves2 ==
    Elem("ul", "", None, <<Child("li", <<"p">>, None), Child("li", <<"q">>, None)>>)
Moves0 == Elem("ul", "", None, <<>>)
Heading == Elem("h2", "", <<"h">>, <<>>)

Elements ==
    {NameGoblin, NameOrc, NameOrcHuge, NameElf, StatsHpArmor, StatsWeapon,
     StatsAll, StatsTags, StatsBad, Qualities, Description,
     DescriptionInstinct, Indented, Moves2, Moves0, Heading}

(* the h1 of a document: <<>> when the document has none, else <<text>> *)
Moor == <<"M", "o", "o", "r">>
Headings == {<<>>, <<Cave>>, <<Hill>>, <<Moor>>}

Club == <<"C", "l", "u", "b">>
Gigantic == <<"G", "i", "g", "a", "n", "t", "i", "c">>

YamlGoblin ==
    YamlMap([name |-> Goblin, hp |-> <<7>>,
             tags_org |-> ListVal(<<Horde>>),
             weapon |-> [name |-> Club, damage |-> <<"d", "8">>],
             instinct |-> <<"z">>])
YamlOrc ==
    YamlMap([name |-> Orc, tags_size |-> ListVal(<<Gigantic>>),
             weapon |-> [tags_range |-> ListVal(<<Far, Hand>>)]])
YamlNoName == YamlMap([hp |-> <<3>>])
YamlEmptyName == YamlMap([name |-> <<>>])

YamlDocs ==
    {YamlGoblin, YamlOrc, YamlNoName, YamlEmptyName,
     YamlOther("null"), YamlOther("list"), YamlOther("emptylist"),
     YamlOther("scalar")}

-----------------------------------------------------------------------------
(* Whole documents: a monster as the source files lay one out (name and    *)
(* tags, two MonsterStats paragraphs, qualities, description, moves), with *)
(* the weapon text in the first or in the second MonsterStats paragraph    *)

RECURSIVE IntText(_)
IntText(n) ==
    IF n < Len(Digits) THEN <<Digits[n + 1]>>
    ELSE IntText(n \div Len(Digits)) \o <<Digits[(n % Len(Digits)) + 1]>>

HpArmorText(hp, armor) ==
    IntText(hp) \o <<" ", "H", "P">> \o Tab
        \o IntText(armor) \o <<" ", "A", "r", "m", "o", "r">>

MoveItems(k) == [i \in 1..k |-> Child("li", <<"m">> \o IntText(i), None)]

MonsterBody(p) ==
    <<Elem("p", "MonsterName", p.name,
           <<Child("span", Text(<<Small, Horde>>), None)>>),
      IF p.weaponAt = "first"
      THEN Elem("p", "MonsterStats", Dagger \o Tab \o HpArmorText(p.hp, p.armor),
                <<>>)
      ELSE Elem("p", "MonsterStats", HpArmorText(p.hp, p.armor), <<>>),
      IF p.weaponAt = "first"
      THEN Elem("p", "MonsterStats", None, <<Child("span", Hand, None)>>)
      ELSE Elem("p", "MonsterStats", Dagger, <<Child("span", Hand, None)>>),
      Qualities,
      Description,
      Elem("ul", "", None, MoveItems(p.k))>>

MonsterParams ==
    [name : {Goblin, Orc}, hp : {4, 12}, armor : {2},
     weaponAt : {"first", "second"}, k : {0, 1, MaxMoves}]

XmlDoc(p) == [kind |-> "xml", heading |-> <<Cave>>, body |-> MonsterBody(p),
              given |-> p, yaml |-> YamlOther("null")]

YamlDoc(y) == [kind |-> "yaml", heading |-> <<>>, body |-> <<>>,
               given |-> [name |-> None, hp |-> 0, armor |-> 0,
                          weaponAt |-> "", k |-> 0],
               yaml |-> y]

XmlDocs == {XmlDoc(p) : p \in MonsterParams}

WholeYamlDocs == {YamlGoblin, YamlOrc, YamlNoName, YamlOther("null")}

-----------------------------------------------------------------------------
(* The main program, lines 735-766 *)

Step(op, what, ok) == [op |-> op, what |-> what, ok |-> ok]

Locals == [m |-> m, second |-> second, e |-> e, setting |-> setting]

Init ==
    /\ pc = "files"
    /\ monsters = EmptyDict
    /\ m = <<>>
    /\ linked = FALSE
    /\ second = FALSE
    /\ e = <<>>
    /\ setting = <<>>
    /\ xmlLeft \in 0..MaxXmlDocs
    /\ yamlLeft \in 0..MaxYamlDocs
    /\ elemsLeft = MaxElems
    /\ mode = ""
    /\ todo = <<>>
    /\ rendered = <<>>
    /\ script = <<>>
    /\ docs = <<>>
    /\ last = Step("init", "", TRUE)
    /\ ret = None
    /\ calls = 0

(* lines 155-159: the file is parsed; its h1 (h = <<>> when it has none)   *)
(* names the setting, looked up in index["settings"]                       *)
OpenXml(h) ==
    /\ IF h # <<>> /\ h[1] \in DOMAIN IndexSettings
       THEN /\ pc' = "body"
            /\ setting' = <<h[1], IndexSettings[h[1]]>>
            /\ last' = Step("begin", "", TRUE)
       ELSE /\ pc' = "crashed"
            /\ setting' = setting
            /\ last' = Step("begin", "", FALSE)
    /\ second' = FALSE
    /\ UNCHANGED <<monsters, m, linked, e, xmlLeft, yamlLeft, elemsLeft, mode,
                   todo, rendered, ret, calls>>

(* lines 747-748: the next XML file *)
BeginXml ==
    /\ pc = "files"
    /\ xmlLeft > 0
    /\ \E h \in Headings : OpenXml(h)
    /\ UNCHANGED <<script, docs>>

(* a commit that keeps the entry a name already has *)
Commit_KeepsFirst(store, mon) ==
    IF mon.name \in DOMAIN store THEN store ELSE Put(store, mon.name, mon)

(* line 273 and the aliasing it creates: after the commit, m and           *)
(* monsters[m["name"]] are one object until line 169 rebinds m             *)
Commit(store, mon) == Put(store, mon.name, mon)

(* after a handler has run: the dict as the aliasing leaves it *)
StoreAfter(store, r, wasLinked, isName) ==
    IF r.commit \/ (wasLinked /\ ~isName) THEN Commit(store, r.m[1])
    ELSE store

(* lines 160-273: one element of Body *)
ProcessElement(el) ==
    LET r      == Handle(el, Locals)
        isName == el.tag = "p" /\ el.style = "MonsterName"
        what   == IF el.tag = "p" THEN el.style ELSE el.tag
    IN  /\ IF r.ok
           THEN /\ pc' = pc
                /\ m' = r.m
                /\ second' = r.second
                /\ e' = r.e
                /\ linked' = (r.commit \/ (linked /\ ~isName))
                /\ monsters' = StoreAfter(monsters, r, linked, isName)
                /\ last' = Step("element", what, TRUE)
           ELSE /\ pc' = "crashed"
                /\ UNCHANGED <<m, second, e, linked, monsters>>
                /\ last' = Step("element", what, FALSE)
        /\ UNCHANGED <<setting, xmlLeft, yamlLeft, mode, todo, rendered, ret,
                       calls>>

Element ==
    /\ pc = "body"
    /\ elemsLeft > 0
    /\ \E el \in Elements : ProcessElement(el)
    /\ elemsLeft' = elemsLeft - 1
    /\ UNCHANGED <<script, docs>>

(* parse_xml returns: its locals are gone *)
EndXml ==
    /\ pc = "body"
    /\ script = <<>>
    /\ pc' = "files"
    /\ xmlLeft' = xmlLeft - 1
    /\ m' = <<>>
    /\ linked' = FALSE
    /\ second' = FALSE
    /\ e' = <<>>
    /\ setting' = <<>>
    /\ last' = Step("end", "", TRUE)
    /\ UNCHANGED <<monsters, yamlLeft, elemsLeft, mode, todo, rendered, script,
                   docs, ret, calls>>

YamlShape(doc) ==
    IF doc.kind # "map" THEN doc.kind
    ELSE IF "name" \notin DOMAIN doc.map THEN "noname"
    ELSE IF doc.map.name = <<>> THEN "emptyname"
    ELSE "map"

(* lines 749-750 and 276-306: one YAML file *)
ProcessYaml(doc) ==
    LET r == ParseYaml(doc)
    IN  /\ IF r.ok
           THEN /\ pc' = pc
                /\ monsters' = Commit(monsters, r.mon)
                /\ yamlLeft' = yamlLeft - 1
                /\ last' = Step("yaml", YamlShape(doc), TRUE)
           ELSE /\ pc' = "crashed"
                /\ UNCHANGED <<monsters, yamlLeft>>
                /\ last' = Step("yaml", YamlShape(doc), FALSE)
        /\ UNCHANGED <<m, linked, second, e, setting, xmlLeft, elemsLeft, mode,
                       todo, rendered, ret, calls>>

LoadYaml ==
    /\ pc = "files"
    /\ xmlLeft = 0
    /\ yamlLeft > 0
    /\ \E doc \in YamlDocs : ProcessYaml(doc)
    /\ UNCHANGED <<script, docs>>

(* line 751.  The output argument is fixed before the first file is read   *)
(* (line 618) and read by nothing before line 756: the model draws it here *)
SortNames ==
    /\ pc = "files"
    /\ xmlLeft = 0
    /\ yamlLeft = 0
    /\ pc' = "render"
    /\ todo' = SortedSet(DOMAIN monsters)
    /\ mode' \in Modes
    /\ last' = Step("sort", "", TRUE)
    /\ UNCHANGED <<monsters, m, linked, second, e, setting, xmlLeft, yamlLeft,
                   elemsLeft, rendered, script, docs, ret, calls>>

(* lines 753-766: one record is handed to the writer *)
Render ==
    /\ pc = "render"
    /\ todo # <<>>
    /\ \E paragraphTakesNone \in BOOLEAN :
          LET name == Head(todo)
              r    == Write(mode, monsters[name], paragraphTakesNone)
          IN  IF r.ok
              THEN /\ pc' = pc
                   /\ monsters' = Put(monsters, name, r.mon)
                   /\ todo' = Tail(todo)
                   /\ rendered' = Append(rendered, name)
                   /\ last' = Step("render", mode, TRUE)
              ELSE /\ pc' = "crashed"
                   /\ UNCHANGED <<monsters, todo, rendered>>
                   /\ last' = Step("render", mode, FALSE)
    /\ UNCHANGED <<m, linked, second, e, setting, xmlLeft, yamlLeft,
                   elemsLeft, mode, script, docs, ret, calls>>

Finish ==
    /\ pc = "render"
    /\ todo = <<>>
    /\ pc' = "done"
    /\ last' = Step("finish", "", TRUE)
    /\ UNCHANGED <<monsters, m, linked, second, e, setting, xmlLeft, yamlLeft,
                   elemsLeft, mode, todo, rendered, script, docs, ret, calls>>

Next ==
    \/ BeginXml
    \/ Element
    \/ EndXml
    \/ LoadYaml
    \/ SortNames
    \/ Render
    \/ Finish

Spec == Init /\ [][Next]_vars

-----------------------------------------------------------------------------
(* The same program reading documents given as a whole *)

BeginDoc ==
    /\ pc = "files"
    /\ xmlLeft > 0
    /\ \E d \in XmlDocs :
          /\ OpenXml(d.heading)
          /\ script' = d.body
          /\ docs' = Append(docs, d)

ElementOfDoc ==
    /\ pc = "body"
    /\ script # <<>>
    /\ ProcessElement(Head(script))
    /\ script' = Tail(script)
    /\ UNCHANGED <<elemsLeft, docs>>

(* the YAML loop entered before the XML loop has ended *)
LoadYamlDoc_BeforeXml ==
    /\ pc = "files"
    /\ yamlLeft > 0
    /\ \E y \in WholeYamlDocs :
          /\ ProcessYaml(y)
          /\ docs' = Append(docs, YamlDoc(y))
    /\ UNCHANGED script

LoadYamlDoc ==
    /\ pc = "files"
    /\ xmlLeft = 0
    /\ yamlLeft > 0
    /\ \E y \in WholeYamlDocs :
          /\ ProcessYaml(y)
          /\ docs' = Append(docs, YamlDoc(y))
    /\ UNCHANGED script

NextDocs ==
    \/ BeginDoc
    \/ ElementOfDoc
    \/ EndXml
    \/ LoadYamlDoc

SpecDocs == Init /\ [][NextDocs]_vars

-----------------------------------------------------------------------------
(* Properties *)

Ingesting == pc \in {"files", "body"}

NameStep == last.op = "element" /\ last.what = "MonsterName" /\ last.ok

(* the values of list appear in the order vocabulary gives them *)
InVocabularyOrder(list, vocabulary) ==
    \A i \in 1..Len(list) :
        /\ InList(list[i], vocabulary)
        /\ \A j \in (i + 1)..Len(list) :
              /\ InList(list[j], vocabulary)
              /\ IndexOf(list[i], vocabulary) <= IndexOf(list[j], vocabulary)

(* C1: whatever the order of the tokens in the source tag string, the      *)
(* record parse_xml is building lists its organization tags in the order   *)
(* Solitary, Group, Horde, its size tags in the order Tiny, Small, Large,  *)
(* Huge and its weapon's range tags in the order Hand, Close, Reach, Near, *)
(* Far.                                                                    *)
C1_TagsInVocabularyOrder ==
    (pc = "body" /\ m # <<>>) =>
        /\ InVocabularyOrder(m[1].tags_org.items, monster_tags_org)
        /\ InVocabularyOrder(m[1].tags_size.items, monster_tags_size)
        /\ InVocabularyOrder(m[1].weapon.tags_range.items, weapon_tags_range)

(* C2: a MonsterName element resets the flag, so that the first            *)
(* MonsterStats element after it is read as the primary stat line: right   *)
(* after a MonsterName element has been processed, second is FALSE.        *)
C2_NameResetsFlag == NameStep => second = FALSE

(* the record a whole one-monster document with parameters p is laid out   *)
(* to give, written field by field                                         *)
ExpectedRecord(p) ==
    [name |-> p.name,
     tags_desc |-> <<>>,
     tags_org |-> ListVal(<<Horde>>),
     tags_size |-> ListVal(<<Small>>),
     hp |-> <<p.hp>>,
     armor |-> <<p.armor>>,
     weapon |-> [name |-> IF p.weaponAt = "first"
                          THEN <<"D", "a", "g", "g", "e", "r">> ELSE None,
                 damage |-> IF p.weaponAt = "first"
                            THEN <<"d", "6">> ELSE None,
                 tags_desc |-> <<>>,
                 tags_range |-> ListVal(<<Hand>>)],
     instinct |-> None,
     moves |-> [i \in 1..p.k |-> <<"m">> \o IntText(i)],
     qualities |-> <<<<"a">>, <<"b">>>>,
     description |-> <<"d">>,
     reference |-> IF p.name = Goblin THEN <<224>> ELSE <<283>>,
     setting |-> Cave,
     setting_reference |-> <<221>>]

(* exactly one whole markup document has been ingested *)
OneDocumentIngested ==
    /\ pc = "files"
    /\ last.op = "end"
    /\ Len(docs) = 1
    /\ docs[1].kind = "xml"

(* C3, as the claim states it: a document whose first MonsterStats element *)
(* holds HP and Armor and whose second holds 'Dagger (d6)' and the child   *)
(* 'Hand' commits exactly one record with that hp and armor, weapon name   *)
(* Dagger, weapon damage d6, range tags [Hand] and k moves.                *)
C3_WeaponOfSecondStatsElement ==
    (OneDocumentIngested /\ docs[1].given.weaponAt = "second") =>
        LET p == docs[1].given
        IN  /\ DOMAIN monsters = {p.name}
            /\ monsters[p.name].hp = <<p.hp>>
            /\ monsters[p.name].armor = <<p.armor>>
            /\ monsters[p.name].weapon.name = <<"D", "a", "g", "g", "e", "r">>
            /\ monsters[p.name].weapon.damage = <<"d", "6">>
            /\ monsters[p.name].weapon.tags_range = ListVal(<<Hand>>)
            /\ Len(monsters[p.name].moves) = p.k

(* C3, amended: the document commits exactly one record with that hp and   *)
(* armor, range tags [Hand] and k moves; its weapon name and damage are    *)
(* absent when 'Dagger (d6)' is the text of the second MonsterStats        *)
(* element, and are Dagger and d6 when it is a tab-separated token of the  *)
(* first.                                                                  *)
C3_WeaponOfFirstStatsElement ==
    OneDocumentIngested =>
        LET p == docs[1].given
        IN  /\ DOMAIN monsters = {p.name}
            /\ monsters[p.name].hp = <<p.hp>>
            /\ monsters[p.name].armor = <<p.armor>>
            /\ monsters[p.name].weapon.tags_range = ListVal(<<Hand>>)
            /\ Len(monsters[p.name].moves) = p.k
            /\ p.weaponAt = "second" =>
                  /\ monsters[p.name].weapon.name = None
                  /\ monsters[p.name].weapon.damage = None
            /\ p.weaponAt = "first" =>
                  /\ monsters[p.name].weapon.name
                        = <<"D", "a", "g", "g", "e", "r">>
                  /\ monsters[p.name].weapon.damage = <<"d", "6">>

C3_GoblinIngested ==
    /\ OneDocumentIngested
    /\ docs[1].given = [name |-> Goblin, hp |-> 4, armor |-> 2,
                        weaponAt |-> "second", k |-> 2]
    /\ Len(monsters[Goblin].moves) = 2

(* the step taken is a commit under the name n: a ul element of a record   *)
(* named n, or a YAML document whose record is named n                     *)
YamlRecords == {ParseYaml(y).mon : y \in {d \in YamlDocs : ParseYaml(d).ok}}

CommitUnder(n) ==
    \/ /\ last'.op = "element" /\ last'.what = "ul" /\ last'.ok
       /\ m'[1].name = n
    \/ /\ last'.op = "yaml" /\ last'.ok
       /\ n \in DOMAIN monsters'
       /\ monsters'[n] \in YamlRecords
       /\ monsters'[n].name = n

(* C4: once a record is in the dict, no step of the ingestion changes the  *)
(* entry under its name, except a later commit under the same name.        *)
C4_CommittedRecordUnchanged ==
    [][\A n \in DOMAIN monsters :
          (/\ pc' \in {"files", "body"}
           /\ \/ n \notin DOMAIN monsters'
              \/ monsters'[n] # monsters[n])
          => CommitUnder(n)]_vars

(* C5: during ingestion the dict changes only in the step of a ul element, *)
(* which stores the record being built under its name and nothing else, or *)
(* in the step that ends the loading of a YAML document.                   *)
C5_StoreChangesOnlyAtCommit ==
    [][pc' \in {"files", "body"} =>
          IF last'.op = "element" /\ last'.what = "ul"
          THEN monsters' = Put(monsters, m'[1].name, m'[1])
          ELSE IF last'.op = "yaml"
          THEN \E r \in YamlRecords : monsters' = Put(monsters, r.name, r)
          ELSE monsters' = monsters]_vars

(* the record a whole document commits, and the name it commits it under *)
CommittedBy(d) ==
    IF d.kind = "xml" THEN ExpectedRecord(d.given) ELSE ParseYaml(d.yaml).mon

(* the documents of docs that commit a record under the name n *)
Committing(n) == {i \in 1..Len(docs) : CommittedBy(docs[i]).name = n}

Latest(S) == CHOOSE i \in S : \A j \in S : j <= i

(* C6: when every document begun has been ingested, the dict holds one     *)
(* entry for each name some document committed, and the entry is the whole *)
(* record of the latest document that committed that name.                 *)
C6_LastIngestedWins ==
    pc = "files" =>
        /\ DOMAIN monsters = {CommittedBy(docs[i]).name : i \in 1..Len(docs)}
        /\ \A n \in DOMAIN monsters :
              monsters[n] = CommittedBy(docs[Latest(Committing(n))])

C6_SameNameTwice ==
    /\ pc = "files"
    /\ Len(docs) >= 2
    /\ CommittedBy(docs[1]).name = CommittedBy(docs[2]).name
    /\ CommittedBy(docs[1]) # CommittedBy(docs[2])
    /\ monsters[CommittedBy(docs[2]).name] = CommittedBy(docs[2])

(* C7: during ingestion every entry of the dict has a non-empty name and   *)
(* is stored under that name.                                              *)
C7_StoredNameNonEmpty ==
    Ingesting =>
        \A k \in DOMAIN monsters : Truthy(k) /\ monsters[k].name = k

(* C8: loading a YAML document whose top-level value is no mapping, or     *)
(* whose name is absent or empty, fails and leaves the dict as it was.     *)
C8_MalformedYamlRejected ==
    [][(/\ last'.op = "yaml"
        /\ last'.what \in {"null", "list", "emptylist", "scalar", "noname",
                           "emptyname"})
       => (~last'.ok /\ monsters' = monsters)]_vars

(* C9: a failed ingestion abandons only its document: when the run is      *)
(* over, also after a failed ingestion, every other document has been      *)
(* ingested and every record of the dict has been rendered.                *)
C9_FailureAbandonsOneDocument ==
    (\/ pc = "done"
     \/ pc = "crashed" /\ last.op \in {"begin", "element", "yaml"}) =>
        /\ xmlLeft + yamlLeft <= (IF pc = "crashed" THEN 1 ELSE 0)
        /\ \A n \in DOMAIN monsters : InList(n, rendered)

AllOf(list, vocabulary) == \A i \in 1..Len(list) : InList(list[i], vocabulary)

(* C10: during ingestion every record of the dict has only organization    *)
(* tags of {Solitary, Group, Horde}, size tags of {Tiny, Small, Large,     *)
(* Huge} and weapon range tags of {Hand, Close, Reach, Near, Far}.         *)
C10_StoredTagsInVocabulary ==
    Ingesting =>
        \A k \in DOMAIN monsters :
            /\ AllOf(ValItems(monsters[k].tags_org), monster_tags_org)
            /\ AllOf(ValItems(monsters[k].tags_size), monster_tags_size)
            /\ AllOf(ValItems(monsters[k].weapon.tags_range),
                     weapon_tags_range)

-----------------------------------------------------------------------------
(* The field combiners called on ingested records.  The documents carry    *)
(* tag strings and stat lines of several shapes; after the ingestion       *)
(* combine_monster_tags and combine_weapon are called on the records of    *)
(* the dict, as the writers call them (lines 371, 532, 536).               *)

MaxCalls == 2

DaggerNoDamage == <<"D", "a", "g", "g", "e", "r", " ", "(", ")">>
NoNameDamage == <<" ", "(", "d", "6", ")">>

TagTexts ==
    {<<" ">>, <<"a">>, <<"b", ",", " ", "a">>, Text(<<Horde, <<"b">>>>),
     Text(<<<<"b">>, Small, <<"a">>, Group>>), Text(<<Huge, Group>>)}

StatTexts ==
    {HpArmor, Dagger \o Tab \o HpArmor, DaggerNoDamage \o Tab \o HpArmor,
     NoNameDamage}

(* the text of the child of the second MonsterStats paragraph; <<>> stands *)
(* for a document without that paragraph                                   *)
WeaponTagTexts ==
    {<<>>, <<Hand>>, <<<<"b", ",", " ", "a">>>>,
     <<Text(<<Reach, <<"b">>, <<"a">>>>)>>}

TaggedBody(p) ==
    <<Elem("p", "MonsterName", Goblin, <<Child("span", p.tags, None)>>),
      Elem("p", "MonsterStats", p.stats, <<>>)>>
    \o (IF p.wtags = <<>> THEN <<>>
        ELSE <<Elem("p", "MonsterStats", None,
                    <<Child("span", p.wtags[1], None)>>)>>)
    \o <<Moves0>>

TaggedParams == [tags : TagTexts, stats : StatTexts, wtags : WeaponTagTexts]

TaggedDoc(p) == [kind |-> "xml", heading |-> <<Cave>>, body |-> TaggedBody(p),
                 given |-> p, yaml |-> YamlOther("null")]

TaggedDocs == {TaggedDoc(p) : p \in TaggedParams}

YamlClub == YamlMap([name |-> Orc, weapon |-> [name |-> Club]])

FieldYamlDocs == {YamlGoblin, YamlOrc, YamlClub}

InitFields == Init /\ xmlLeft = 1

BeginTagged ==
    /\ pc = "files"
    /\ xmlLeft > 0
    /\ \E d \in TaggedDocs :
          /\ OpenXml(d.heading)
          /\ script' = d.body
          /\ docs' = Append(docs, d)

LoadYamlFields ==
    /\ pc = "files"
    /\ xmlLeft = 0
    /\ yamlLeft > 0
    /\ \E y \in FieldYamlDocs :
          /\ ProcessYaml(y)
          /\ docs' = Append(docs, YamlDoc(y))
    /\ UNCHANGED script

Called(fn, n, formatted) ==
    Step(fn, [name |-> n, formatted |-> formatted], TRUE)

(* a call combine_monster_tags(monsters[n], formatted) *)
CombineTags ==
    /\ pc = "files"
    /\ xmlLeft = 0
    /\ yamlLeft = 0
    /\ calls < MaxCalls
    /\ \E n \in DOMAIN monsters, formatted \in BOOLEAN :
          LET r == combine_monster_tags(monsters[n], formatted)
          IN  /\ monsters' = Put(monsters, n, r.mon)
              /\ ret' = r.out
              /\ last' = Called("combine_monster_tags", n, formatted)
    /\ calls' = calls + 1
    /\ UNCHANGED <<pc, m, linked, second, e, setting, xmlLeft, yamlLeft,
                   elemsLeft, mode, todo, rendered, script, docs>>

(* a call combine_weapon(monsters[n], formatted) *)
CombineWeapon ==
    /\ pc = "files"
    /\ xmlLeft = 0
    /\ yamlLeft = 0
    /\ calls < MaxCalls
    /\ \E n \in DOMAIN monsters, formatted \in BOOLEAN :
          LET r == combine_weapon(monsters[n], formatted)
          IN  /\ monsters' = Put(monsters, n, r.mon)
              /\ ret' = r.out
              /\ last' = Called("combine_weapon", n, formatted)
    /\ calls' = calls + 1
    /\ UNCHANGED <<pc, m, linked, second, e, setting, xmlLeft, yamlLeft,
                   elemsLeft, mode, todo, rendered, script, docs>>

NextFields ==
    \/ BeginTagged
    \/ ElementOfDoc
    \/ EndXml
    \/ LoadYamlFields
    \/ CombineTags
    \/ CombineWeapon

SpecFields == InitFields /\ [][NextFields]_vars

(* the step taken is a call of the combiner fn *)
Calling(fn) == last'.op = fn

(* the record a call was given, and the same record after the call *)
Given == monsters[last'.what.name]
Left == monsters'[last'.what.name]

(* C11: a call of combine_monster_tags or of combine_weapon, formatted or  *)
(* not, leaves every field of the record it was given with the value and   *)
(* the type the field had before the call.                                 *)
C11_CombinersLeaveRecord ==
    [][(Calling("combine_monster_tags") \/ Calling("combine_weapon"))
          => Left = Given]_vars

(* the segments of segs that are not empty, joined by ' ~ ' *)
NonEmpty(seg) == seg # <<>>
TildeJoined(segs) == Join(Tilde, SelectSeq(segs, NonEmpty))

(* no combiner has been called yet: every record is as it was ingested *)
Fresh == calls = 0

(* C12: called on a freshly ingested record, combine_monster_tags returns  *)
(* the free-form tags sorted and joined by ', ', then the organization     *)
(* tags joined by ', ', then the size tags joined by ', ', with ' ~ '      *)
(* between the segments that are not empty; it returns None exactly when   *)
(* the three lists are empty; with formatted true a result other than None *)
(* is wrapped in <i>...</i>.                                               *)
C12_TagSummary ==
    [][(Calling("combine_monster_tags") /\ Fresh) =>
          LET r      == Given
              joined == TildeJoined(<<Join(CommaSpace, Sorted(r.tags_desc)),
                                      Join(CommaSpace, ValItems(r.tags_org)),
                                      Join(CommaSpace, ValItems(r.tags_size))>>)
          IN  ret' = IF /\ r.tags_desc = <<>>
                        /\ ~ValTruthy(r.tags_org)
                        /\ ~ValTruthy(r.tags_size)
                     THEN None
                     ELSE IF last'.what.formatted THEN Italic(joined)
                     ELSE joined]_vars

C18_WeaponTagSummary ==
    [][(Calling("combine_weapon") /\ Fresh) =>
          LET w       == Given.weapon
              summary == TildeJoined(<<Join(CommaSpace, Sorted(w.tags_desc)),
                                       Join(CommaSpace, ValItems(w.tags_range))>>)
              head    == w.name \o <<" ", "(">> \o w.damage \o <<")">>
          IN  (/\ Truthy(w.name) /\ Truthy(w.damage)
               /\ (w.tags_desc # <<>> \/ ValTruthy(w.tags_range))
               /\ summary # <<>>)
              => ret' = IF last'.what.formatted
                        THEN head \o <<"<", "b", "r", " ", "/", ">">>
                                  \o Italic(summary)
                        ELSE head \o <<" ">> \o summary]_vars

-----------------------------------------------------------------------------
(* parse_xml on tag strings and stat lines of every shape: a document is a *)
(* MonsterName paragraph with a drawn tag string, or a monster with a      *)
(* drawn primary stat line, or a monster with a drawn weapon tag string.   *)
(* A child element without text has the text None (ElementTree).           *)

MaxTokens == 3

MonsterTokens ==
    {Horde, <<" ">> \o Group, Tiny \o <<" ">>, <<" ", "a", " ">>, <<"b">>,
     <<" ">>}

WeaponTokens == {Hand, <<" ">> \o Reach, <<"a">>, <<" ">>}

Bite == <<"B", "i", "t", "e", " ", "(", "d", "6", " ", "(", "x", ")", ")">>
ClubSpaced == <<" ", "C", "l", "u", "b", " ", "(", " ", "d", "8", " ", ")">>

StatTokens == {Dagger, Bite, ClubSpaced, <<"4", " ", "H", "P">>}

TokenSeqs(tokens, n) == UNION {[1..k -> tokens] : k \in 1..n}

Comma == <<",">>

TagStrings(tokens) == {Join(Comma, ts) : ts \in TokenSeqs(tokens, MaxTokens)}

StatLines == {Join(Tab, ts) : ts \in TokenSeqs(StatTokens, 2)}

PartParams ==
    [part : {"name"}, text : TagStrings(MonsterTokens) \cup {None}]
    \cup [part : {"weapon"}, text : TagStrings(WeaponTokens) \cup {None}]
    \cup [part : {"stats"}, text : StatLines]

NameBare == Elem("p", "MonsterName", Goblin, <<>>)

PartBody(p) ==
    IF p.part = "name"
    THEN <<Elem("p", "MonsterName", Goblin, <<Child("span", p.text, None)>>)>>
    ELSE IF p.part = "stats"
    THEN <<NameBare, Elem("p", "MonsterStats", p.text, <<>>)>>
    ELSE <<NameBare, StatsHpArmor,
           Elem("p", "MonsterStats", None, <<Child("span", p.text, None)>>)>>

PartDoc(p) == [kind |-> "xml", heading |-> <<Cave>>, body |-> PartBody(p),
               given |-> p, yaml |-> YamlOther("null")]

PartDocs == {PartDoc(p) : p \in PartParams}

InitParts == Init /\ xmlLeft = 1 /\ yamlLeft = 0

BeginPart ==
    /\ pc = "files"
    /\ xmlLeft > 0
    /\ \E d \in PartDocs :
          /\ OpenXml(d.heading)
          /\ script' = d.body
          /\ docs' = Append(docs, d)

NextParts ==
    \/ BeginPart
    \/ ElementOfDoc
    \/ EndXml

SpecParts == InitParts /\ [][NextParts]_vars

(* the drawn element of the document, its last, has just been handled *)
PartHandled(part) ==
    /\ docs # <<>>
    /\ docs[1].given.part = part
    /\ last.op = "element"
    /\ script = <<>>

Blank(text) == text = None \/ Strip(text) = <<>>

(* C14: a MonsterName element or a weapon-tags element whose child has no  *)
(* text or only whitespace is handled without error and leaves the         *)
(* category lists and the free-form list empty.                            *)
C14_BlankTagStringGivesNoTag ==
    /\ (PartHandled("name") /\ Blank(docs[1].given.text)) =>
          /\ last.ok
          /\ m[1].tags_desc = <<>>
          /\ m[1].tags_org = ListVal(<<>>)
          /\ m[1].tags_size = ListVal(<<>>)
    /\ (PartHandled("weapon") /\ Blank(docs[1].given.text)) =>
          /\ last.ok
          /\ m[1].weapon.tags_desc = <<>>
          /\ m[1].weapon.tags_range = ListVal(<<>>)

Count(x, list) == Cardinality({i \in 1..Len(list) : list[i] = x})

IsFreeForm(token) ==
    ~InList(token, monster_tags_org) /\ ~InList(token, monster_tags_size)

RECURSIVE LastWeaponToken(_)
LastWeaponToken(stats) ==
    IF stats = <<>> THEN <<>>
    ELSE IF EndsWith(stats[Len(stats)], <<")">>) THEN <<stats[Len(stats)]>>
    ELSE LastWeaponToken(SubSeq(stats, 1, Len(stats) - 1))

FirstParen(token) == CHOOSE i \in 1..Len(token) :
                         token[i] = "(" /\ \A j \in 1..(i - 1) : token[j] # "("

(* C19: a primary stat line is handled without error, and for its token    *)
(* that ends with ')' the weapon's name is the stripped text before the    *)
(* first '(' and its damage the stripped rest without the trailing ')',    *)
(* also when the token has more than one '('.                              *)
C19_WeaponTokenSplitAtFirstParen ==
    PartHandled("stats") =>
        LET found == LastWeaponToken(Split(docs[1].given.text, "\t"))
        IN  found # <<>> =>
               LET token == found[1]
                   i     == FirstParen(token)
                   rest  == SubSeq(token, i + 1, Len(token))
               IN  /\ last.ok
                   /\ m[1].weapon.name = Strip(SubSeq(token, 1, i - 1))
                   /\ m[1].weapon.damage = Strip(RStripChars(rest, {")"}))

(* C20: a NoIndent element with a nested child, handled while a record is  *)
(* being built, sets the record's instinct from the tail of its own child  *)
(* (leading colon removed, stripped), whatever elements came before it.    *)
C20_InstinctOfOwnChild ==
    (/\ last.op = "element"
     /\ last.what = "NoIndent"
     /\ m # <<>>) =>
        /\ last.ok
        /\ m[1].instinct = Strip(LStripChars(Indented.children[1].tail, {":"}))

(* the fields of the record or weapon d that hold a value (not None, not   *)
(* empty) are in d2 with the same value                                    *)
KeepsValues(d, d2) ==
    \A k \in DOMAIN d \ {"weapon"} :
        FieldTruthy(k, d[k]) => (k \in DOMAIN d2 /\ d2[k] = d[k])

(* C17: a writer (csv, pdf, yaml, plain) that has rendered a record leaves *)
(* every field of the stored record that held a value as it was: moves,    *)
(* qualities and the tag lists keep their elements and their order; only   *)
(* empty fields may be removed.                                            *)
C17_WritersKeepValues ==
    [][(last'.op = "render" /\ last'.ok) =>
          LET before == monsters[Head(todo)]
              after  == monsters'[Head(todo)]
          IN  /\ KeepsValues(before, after)
              /\ \/ DOMAIN DropEmpty(before.weapon) = {}
                 \/ /\ "weapon" \in DOMAIN after
                    /\ KeepsValues(before.weapon, after.weapon)]_vars

-----------------------------------------------------------------------------
(* yaml.safe_dump (lines 606, 613) and yaml.safe_load (line 299).  A YAML  *)
(* document is a block mapping from the keys of the record to nodes: a     *)
(* scalar, plain or quoted, or a block sequence of scalars; the value of   *)
(* "weapon" is a mapping of its own.  The emitter writes a str as a plain  *)
(* scalar only when the plain text is read back as that str; the loader    *)
(* resolves a plain scalar by its text (null, int, bool, else str).        *)

Plain(text) ==
    [node |-> "scalar", style |-> "plain", text |-> text, items |-> <<>>]
Quoted(text) ==
    [node |-> "scalar", style |-> "quoted", text |-> text, items |-> <<>>]
SeqNode(items) ==
    [node |-> "seq", style |-> "", text |-> <<>>, items |-> items]

Null == <<"n", "u", "l", "l">>

BoolWords ==
    {<<"t", "r", "u", "e">>, <<"f", "a", "l", "s", "e">>, <<"y", "e", "s">>,
     <<"n", "o">>, <<"o", "n">>, <<"o", "f", "f">>}

IsIntForm(s) ==
    LET body == IF s # <<>> /\ Head(s) \in {"-", "+"} THEN Tail(s) ELSE s
    IN  body # <<>> /\ \A i \in 1..Len(body) : IsDigit(body[i])

(* the implicit resolver: the type a plain scalar is loaded as.  Every     *)
(* capitalisation of null and of the bool words counts as that word.       *)
PlainType(s) ==
    IF s = <<>> \/ s = <<"~">> \/ ToLower(s) = Null THEN "null"
    ELSE IF IsIntForm(s) THEN "int"
    ELSE IF ToLower(s) \in BoolWords THEN "bool"
    ELSE "str"

(* the emitter's analysis of a scalar in a block context *)
PlainAllowed(s) ==
    /\ s # <<>>
    /\ Head(s) \notin Whitespace \cup {",", ">"}
    /\ s[Len(s)] \notin Whitespace \cup {":"}
    /\ ~(Head(s) \in {"-", ":"} /\ (Len(s) = 1 \/ s[2] = " "))
    /\ \A i \in 1..Len(s) : s[i] \notin {"\t", "\n"}
    /\ \A i \in 1..(Len(s) - 1) : ~(s[i] = ":" /\ s[i + 1] = " ")
    /\ PlainType(s) = "str"

(* the negative of n as the emitter writes it *)
IntScalar(n) == IF n < 0 THEN <<"-">> \o IntText(0 - n) ELSE IntText(n)

(* an emitter that writes every str as a plain scalar *)
EmitStr_NeverQuotes(s) == IF s = None THEN Plain(Null) ELSE Plain(s)

EmitStr(s) ==
    IF s = None THEN Plain(Null)
    ELSE IF PlainAllowed(s) THEN Plain(s)
    ELSE Quoted(s)

EmitInt(v) == IF v = NoInt THEN Plain(Null) ELSE Plain(IntScalar(v[1]))

EmitList(list) == SeqNode([i \in 1..Len(list) |-> EmitStr(list[i])])

EmitTags(v) == IF v.kind = "list" THEN EmitList(v.items) ELSE EmitStr(v.text)

(* the keys of a record and of its weapon by the type of their values *)
IntKeys == {"hp", "armor", "reference", "setting_reference"}
ListKeys == {"tags_desc", "moves", "qualities"}
TagKeys == {"tags_org", "tags_size", "tags_range"}

EmitField(k, v) ==
    IF k \in IntKeys THEN EmitInt(v)
    ELSE IF k \in ListKeys THEN EmitList(v)
    ELSE IF k \in TagKeys THEN EmitTags(v)
    ELSE EmitStr(v)

safe_dump(d) ==
    [k \in DOMAIN d |->
        IF k = "weapon"
        THEN [w \in DOMAIN d.weapon |-> EmitField(w, d.weapon[w])]
        ELSE EmitField(k, d[k])]

(* a value of another type than the field's, as the model writes it: an    *)
(* int, a bool or a list where a str is held, anything but an int where an *)
(* int is held                                                             *)
NotAStr(type, text) == <<"<not a str>", type>> \o text
NotAnInt == <<0, 0>>

LoadScalar(node) ==
    IF node.style = "quoted" THEN node.text
    ELSE IF PlainType(node.text) = "str" THEN node.text
    ELSE IF PlainType(node.text) = "null" THEN None
    ELSE NotAStr(PlainType(node.text), node.text)

LoadItems(node) == [i \in 1..Len(node.items) |-> LoadScalar(node.items[i])]

LoadField(k, node) ==
    IF k \in IntKeys
    THEN IF node.node = "scalar" /\ node.style = "plain"
            /\ PlainType(node.text) = "int"
         THEN <<ParseInt(node.text).val>>
         ELSE IF node.node = "scalar" /\ node.style = "plain"
                 /\ PlainType(node.text) = "null"
         THEN NoInt
         ELSE NotAnInt
    ELSE IF k \in ListKeys
    THEN IF node.node = "seq" THEN LoadItems(node)
         ELSE <<NotAStr("scalar", node.text)>>
    ELSE IF k \in TagKeys
    THEN IF node.node = "seq" THEN ListVal(LoadItems(node))
         ELSE StrVal(LoadScalar(node))
    ELSE IF node.node = "scalar" THEN LoadScalar(node)
    ELSE NotAStr("list", <<>>)

safe_load(doc) ==
    YamlMap([k \in DOMAIN doc |->
                IF k = "weapon"
                THEN [w \in DOMAIN doc.weapon |-> LoadField(w, doc.weapon[w])]
                ELSE LoadField(k, doc[k])])

-----------------------------------------------------------------------------
(* The program run with --yaml on whole documents *)

Twelve == <<"1", "2">>

TrickyBody ==
    <<NameOrc,
      Elem("p", "MonsterStats",
           Twelve \o <<" ", "(", "7", ")">> \o Tab \o <<"0", " ", "H", "P">>
               \o Tab \o <<"2", " ", "A", "r", "m", "o", "r">>,
           <<>>),
      StatsTags,
      Elem("p", "MonsterQualities", None,
           <<Child("span", <<"Q">>,
                   <<" ", "a", ",", " ", ",", " ", "t", "r", "u", "e">>)>>),
      Elem("p", "MonsterDescription", <<"d", ":", " ", "e", " ">>,
           <<Child("em", <<"x">>, <<"y">>),
             Child("span", Instinct, <<":", " ", "~">>)>>),
      Elem("ul", "", None,
           <<Child("li", None, None), Child("li", <<"-", " ", "m">>, None),
             Child("li", <<" ", "x">>, None), Child("li", Null, None)>>)>>

TrickyDoc == [kind |-> "xml", heading |-> <<Hill>>, body |-> TrickyBody,
              given |-> [name |-> Orc, hp |-> 0, armor |-> 2,
                         weaponAt |-> "first", k |-> 4],
              yaml |-> YamlOther("null")]

RoundDocs == XmlDocs \cup {TrickyDoc}

InitRound == Init /\ xmlLeft <= 1 /\ yamlLeft <= 1

BeginRound ==
    /\ pc = "files"
    /\ xmlLeft > 0
    /\ \E d \in RoundDocs :
          /\ OpenXml(d.heading)
          /\ script' = d.body
          /\ docs' = Append(docs, d)

(* line 751 in a run with --yaml DIR or --yaml - *)
SortForYaml == SortNames /\ mode' \in {"yaml", "yaml-"}

NextRound ==
    \/ BeginRound
    \/ ElementOfDoc
    \/ EndXml
    \/ LoadYamlFields
    \/ SortForYaml
    \/ Render
    \/ Finish

SpecRound == InitRound /\ [][NextRound]_vars

(* the step taken is yaml_write on the record Head(todo), without error *)
YamlWritten == last'.op = "render" /\ last'.ok /\ mode \in {"yaml", "yaml-"}

-----------------------------------------------------------------------------
(* parse_xml on MonsterDescription paragraphs of every shape: with or      *)
(* without a text of their own, with children drawn from DescChildren,     *)
(* after a monster that has or has not a description already               *)

MaxChildren == 2

DescChildren ==
    {Child("em", <<"x">>, <<"y">>),
     Child("span", <<"s">>, None),
     Child("em", None, <<"t">>),
     Child("span", Instinct, <<":", " ", "z", " ">>),
     Child("em", Instinct, <<"w">>),
     Child("span", Instinct, None)}

DescTexts == {None, <<" ", "c", " ">>}

DescParams ==
    [text : DescTexts,
     children : UNION {[1..k -> DescChildren] : k \in 0..MaxChildren},
     prior : BOOLEAN]

DescBody(p) ==
    <<NameBare>>
    \o (IF p.prior THEN <<Description>> ELSE <<>>)
    \o <<Elem("p", "MonsterDescription", p.text, p.children)>>

DescDoc(p) == [kind |-> "xml", heading |-> <<Cave>>, body |-> DescBody(p),
               given |-> p, yaml |-> YamlOther("null")]

DescDocs == {DescDoc(p) : p \in DescParams}

BeginDesc ==
    /\ pc = "files"
    /\ xmlLeft > 0
    /\ \E d \in DescDocs :
          /\ OpenXml(d.heading)
          /\ script' = d.body
          /\ docs' = Append(docs, d)

NextDesc ==
    \/ BeginDesc
    \/ ElementOfDoc
    \/ EndXml

SpecDesc == InitParts /\ [][NextDesc]_vars

(* the MonsterDescription paragraph of the document has just been handled *)
DescHandled ==
    /\ docs # <<>>
    /\ last.op = "element"
    /\ last.what = "MonsterDescription"
    /\ script = <<>>

IsMarker(c) == c.text = Instinct
IsOther(c) == c.text # Instinct

(* what a child that is no marker adds to the description *)
Piece(c) ==
    (IF c.text = None THEN <<>>
     ELSE IF c.tag = "em" THEN <<"<", "i", ">">> \o c.text \o <<"<", "/", "i", ">">>
     ELSE c.text)
    \o (IF c.tail = None THEN <<>> ELSE c.tail)

RECURSIVE Pieces(_)
Pieces(cs) == IF cs = <<>> THEN <<>> ELSE Piece(Head(cs)) \o Pieces(Tail(cs))

(* C21: a MonsterDescription paragraph whose marker children (text         *)
(* 'Instinct') have a tail sets the instinct to the tail of the marker     *)
(* child, leading colon removed and stripped, and adds no marker child to  *)
(* the description; every other child adds its text, inside <i>...</i>     *)
(* exactly when it is an em element, and then its tail, in document order. *)
C21_InstinctMarkerAndDescription ==
    LET p       == docs[1].given
        markers == SelectSeq(p.children, IsMarker)
        others  == SelectSeq(p.children, IsOther)
        start   == IF p.text # None THEN Strip(p.text)
                   ELSE IF p.prior THEN Strip(Description.text)
                   ELSE <<>>
    IN  (DescHandled /\ \A i \in 1..Len(markers) : markers[i].tail # None) =>
           /\ last.ok
           /\ m[1].description = start \o Pieces(others)
           /\ m[1].instinct
                 = IF markers = <<>> THEN None
                   ELSE Strip(LStripChars(markers[Len(markers)].tail, {":"}))

(* a paragraph with an em child and then a marker child has been handled *)
C21_EmphasisThenMarker ==
    /\ DescHandled
    /\ last.ok
    /\ docs[1].given.text = None
    /\ docs[1].given.children
          = <<Child("em", <<"x">>, <<"y">>),
              Child("span", Instinct, <<":", " ", "z", " ">>)>>
    /\ m[1].instinct = <<"z">>
    /\ m[1].description = <<"<", "i", ">", "x", "<", "/", "i", ">", "y">>

(* the run is over after the ingestion of every file: the render loop has  *)
(* ended, or a writer has raised                                           *)
RunOverAfterIngestion ==
    pc = "done" \/ (pc = "crashed" /\ last.op = "render")

(* C22: no record is rendered while a source file is still to be parsed;   *)
(* the records are rendered in ascending order of their names; and a run   *)
(* that has ingested every file has, when it is over, rendered every       *)
(* record of the dict exactly once.                                        *)
C22_AllRenderedInNameOrder ==
    /\ rendered # <<>> => (xmlLeft = 0 /\ yamlLeft = 0)
    /\ \A i \in 1..Len(rendered) :
          rendered[i] = SortedSet(DOMAIN monsters)[i]
    /\ RunOverAfterIngestion => rendered = SortedSet(DOMAIN monsters)

(* C23: a combiner called a second time on the same record with the same   *)
(* formatted argument, right after its first call, returns what the first  *)
(* call returned.                                                          *)
C23_CombinersRepeatable ==
    [][(/\ Calling("combine_monster_tags") \/ Calling("combine_weapon")
        /\ last.op = last'.op
        /\ last.what = last'.what)
       => ret' = ret]_vars

(* the documents of docs of the given kind that commit a record under n *)
CommittingOf(kind, n) == {i \in Committing(n) : docs[i].kind = kind}

(* C24: no XML document is parsed after a YAML document; and when every    *)
(* file has been parsed, a name that an XML document and a YAML document   *)
(* both committed holds the record of the YAML document that committed it  *)
(* last.                                                                   *)
C24_YamlAfterXml ==
    /\ \A i \in 1..Len(docs) : \A j \in (i + 1)..Len(docs) :
          ~(docs[i].kind = "yaml" /\ docs[j].kind = "xml")
    /\ (pc = "files" /\ xmlLeft = 0 /\ yamlLeft = 0) =>
          \A n \in DOMAIN monsters :
              (CommittingOf("xml", n) # {} /\ CommittingOf("yaml", n) # {})
                  => monsters[n]
                        = ParseYaml(docs[Latest(CommittingOf("yaml", n))].yaml).mon

(* an XML document and then a YAML document have committed Goblin, and the *)
(* dict holds the YAML document's record                                   *)
C24_GoblinOfBothKinds ==
    /\ pc = "files"
    /\ xmlLeft = 0
    /\ yamlLeft = 0
    /\ CommittingOf("xml", Goblin) # {}
    /\ CommittingOf("yaml", Goblin) # {}
    /\ monsters[Goblin].hp = YamlGoblin.map.hp
    /\ monsters[Goblin].setting = None

-----------------------------------------------------------------------------
(* Documents with a second MonsterName paragraph: the first cut elements   *)
(* of a whole monster, and then the paragraph of the next one              *)

NextNames == {NameGoblin, NameOrc, NameOrcHuge, NameBare}

FreshParams ==
    [first : {p \in MonsterParams : p.hp = 4 /\ p.weaponAt = "first" /\ p.k # 1},
     cut : {1, 5, 6},
     next : NextNames,
     heading : {Cave, Hill}]

FreshBody(p) == SubSeq(MonsterBody(p.first), 1, p.cut) \o <<p.next>>

FreshDoc(p) == [kind |-> "xml", heading |-> <<p.heading>>,
                body |-> FreshBody(p), given |-> p, yaml |-> YamlOther("null")]

FreshDocs == {FreshDoc(p) : p \in FreshParams}

BeginFresh ==
    /\ pc = "files"
    /\ xmlLeft > 0
    /\ \E d \in FreshDocs :
          /\ OpenXml(d.heading)
          /\ script' = d.body
          /\ docs' = Append(docs, d)

NextFresh ==
    \/ BeginFresh
    \/ ElementOfDoc
    \/ EndXml

SpecFresh == InitParts /\ [][NextFresh]_vars

(* a MonsterName paragraph of the document has just been handled *)
NameHandled ==
    /\ docs # <<>>
    /\ pc = "body"
    /\ last = Step("element", "MonsterName", TRUE)

(* the element of the document handled last *)
HandledElement ==
    LET d == docs[Len(docs)] IN d.body[Len(d.body) - Len(script)]

Items(seq) == {seq[i] : i \in 1..Len(seq)}

(* the tags the element's own tag child names *)
OwnTags(el) ==
    IF el.children = <<>> THEN {}
    ELSE {Strip(t) : t \in Items(Split(el.children[1].text, ","))}

(* C25: after a MonsterName paragraph the record m has the paragraph's     *)
(* name, the tags of the paragraph's own tag child and no others, no hp,   *)
(* no armor, an empty weapon, no instinct, no moves, no qualities, an      *)
(* empty description, and the setting and setting_reference of the         *)
(* document being parsed.                                                  *)
C25_NameStartsFreshRecord ==
    NameHandled =>
        LET el  == HandledElement
            rec == m[1]
            h   == docs[Len(docs)].heading[1]
        IN  /\ rec.name = Strip(el.text)
            /\ Items(rec.tags_desc) \cup Items(rec.tags_org.items)
                  \cup Items(rec.tags_size.items) = OwnTags(el)
            /\ Len(rec.tags_desc) + Len(rec.tags_org.items)
                  + Len(rec.tags_size.items) = Cardinality(OwnTags(el))
            /\ rec.hp = NoInt
            /\ rec.armor = NoInt
            /\ rec.weapon = [name |-> None, damage |-> None,
                             tags_desc |-> <<>>, tags_range |-> ListVal(<<>>)]
            /\ rec.instinct = None
            /\ rec.moves = <<>>
            /\ rec.qualities = <<>>
            /\ rec.description = <<>>
            /\ rec.setting = h
            /\ rec.setting_reference = IndexSettings[h]

(* a whole Goblin with hp, tags and moves is in the dict, and the tagless  *)
(* MonsterName paragraph after it has been handled in a Hill document      *)
C25_SecondNameAfterWholeMonster ==
    /\ NameHandled
    /\ script = <<>>
    /\ HandledElement = NameBare
    /\ setting[1] = Hill
    /\ Goblin \in DOMAIN monsters
    /\ monsters[Goblin].hp = <<4>>
    /\ monsters[Goblin].moves # <<>>
    /\ monsters[Goblin].tags_size.items # <<>>
    /\ m[1].tags_size.items = <<>>

=============================================================================
